---------------------------- MODULE Spec2Model ----------------------------
(***************************************************************************)
(* SmartFlix ESP32 firmware (iot/esp32_code/smartflix_esp32.ino): setup(), *)
(* the polling loop, the button debounce filter, the tilt detector and the *)
(* recommendation request with its display output.                         *)
(*                                                                         *)
(* Time is the value of millis().  The counter is 32 bits wide; a number   *)
(* that wide is kept as 16-bit limbs, most significant first.  The model   *)
(* clock `now` has three limbs (48 bits, it never wraps in a run);         *)
(* millis() is its two low limbs.                                          *)
(***************************************************************************)
EXTENDS Integers, Sequences, FiniteSets, TLC

\* ------------------------------------------------------------ bounds
\* loop() iterations followed from a state at the top of loop()
MaxPolls == 5
\* loop() iterations followed after setup() in the run from boot
BootPolls == 2
\* largest "recommendations" array a response carries
MaxRecs == 4

\* ------------------------------------------------------------ constants
HIGH == TRUE
LOW == FALSE
debounceDelay == 50
tiltThresholdRaw == 24576
TiltCooldown == 1000
MaxAttempts == 20
ConnectPollDelay == 500
ConnectedDelay == 2000
LoopDelayMs == 100
HandlerDelay == 1000
MaxDisplay == 3
Base == 65536

\* ------------------------------------------------------------ unsigned long
\* millis(): the low 32 bits of the clock
Millis(t) == <<t[2], t[3]>>

\* the clock d ms later (0 <= d < Base)
AddMs(t, d) ==
  LET lo == t[3] + d
      hi == t[2] + (lo \div Base)
  IN  <<t[1] + (hi \div Base), hi % Base, lo % Base>>

\* a - b of two clock values with a >= b
Sub48(a, b) ==
  LET lo == a[3] - b[3]
      bl == IF lo < 0 THEN 1 ELSE 0
      hi == a[2] - b[2] - bl
      bh == IF hi < 0 THEN 1 ELSE 0
  IN  <<a[1] - b[1] - bh, hi % Base, lo % Base>>

\* a mutant of Sub32: the subtraction saturates at 0 instead of wrapping
Sub32Saturating(a, b) ==
  IF a[1] < b[1] \/ (a[1] = b[1] /\ a[2] < b[2])
    THEN <<0, 0>>
    ELSE LET lo == a[2] - b[2]
             bl == IF lo < 0 THEN 1 ELSE 0
         IN  <<a[1] - b[1] - bl, lo % Base>>

\* unsigned long a - b: subtraction modulo 2^32
Sub32(a, b) ==
  LET lo == a[2] - b[2]
      bl == IF lo < 0 THEN 1 ELSE 0
  IN  <<(a[1] - b[1] - bl) % Base, lo % Base>>

\* unsigned long x > n (0 <= n < Base)
Gt32(x, n) == x[1] > 0 \/ x[2] > n

\* 48-bit x > n and x >= n (0 <= n < Base)
Gt48(x, n) == x[1] > 0 \/ x[2] > 0 \/ x[3] > n
Ge48(x, n) == x[1] > 0 \/ x[2] > 0 \/ x[3] >= n

Abs(x) == IF x > 0 THEN x ELSE -x

\* ------------------------------------------------------------ display
Screen(name) == [screen |-> name, entries |-> <<>>]

\* movies[i] of a JsonArray: null (0) outside the array
At(movies, i) == IF i \in DOMAIN movies THEN movies[i] ELSE 0

\* a mutant of DisplayCount: always three rows
DisplayCountAlways3(n) == MaxDisplay

DisplayCount(n) == IF n < MaxDisplay THEN n ELSE MaxDisplay

displayDemoRecommendations == [screen |-> "demo", entries |-> <<>>]

displayError(error) == Screen(error)

\* the screen drawn for a response body; entries are the array elements
\* drawn, in row order
displayRecommendations(body) ==
  IF body.kind = "invalid" THEN displayDemoRecommendations
  ELSE IF body.kind = "recs"
    THEN [screen |-> "recs",
          entries |-> [i \in 1..DisplayCount(Len(body.movies)) |->
                          At(body.movies, i)]]
    ELSE displayDemoRecommendations

\* a mutant of sendAPIRequest: a failed POST is sent a second time
sendAPIRequestRetry(connected, resp) ==
  IF connected
    THEN IF resp.code > 0
           THEN [frames |-> <<displayRecommendations(resp.body)>>,
                 posts |-> 1, ret |-> "response"]
           ELSE [frames |-> <<displayError("API Error")>>,
                 posts |-> 2, ret |-> "Error"]
    ELSE [frames |-> <<displayError("WiFi Disconnected")>>,
          posts |-> 0, ret |-> "Offline"]

\* sendAPIRequest: the frames it draws, the POSTs it sends, what it returns
sendAPIRequest(connected, resp) ==
  IF connected
    THEN IF resp.code > 0
           THEN [frames |-> <<displayRecommendations(resp.body)>>,
                 posts |-> 1, ret |-> "response"]
           ELSE [frames |-> <<displayError("API Error")>>,
                 posts |-> 1, ret |-> "Error"]
    ELSE [frames |-> <<displayError("WiFi Disconnected")>>,
          posts |-> 0, ret |-> "Offline"]

\* ------------------------------------------------------------ inputs
NoBody == [kind |-> "none", movies |-> <<>>]

Bodies ==
  {[kind |-> "invalid", movies |-> <<>>], [kind |-> "nofield", movies |-> <<>>]}
  \cup {[kind |-> "recs", movies |-> [i \in 1..n |-> i]] : n \in 0..MaxRecs}

\* what http.POST returns and the body http.getString() then gives
Responses ==
  {[code |-> -1, body |-> NoBody]}
  \cup {[code |-> 200, body |-> b] : b \in Bodies}
  \cup {[code |-> 500, body |-> b] : b \in {x \in Bodies : x.kind = "invalid"}}

\* the time http.POST and http.getString block
HttpDurations == {200}

\* the time one pass of loop() takes beyond the handlers: delay(100)
LoopDelays == {LoopDelayMs}

\* raw accelerometer readings (accelX, accelY); tilt = raw / 16384
TiltSamples == {<<0, 0>>, <<24577, 0>>, <<24576, 0>>, <<0, -24577>>}

\* ------------------------------------------------------------ state
VARIABLES
  pc,                \* where the program is: a step of setup() or of loop()
  now,               \* the clock (millis() is its low 32 bits)
  wifi,              \* WiFi.status() == WL_CONNECTED
  budget,            \* loop() iterations still followed
  attempts,          \* connectToWiFi: attempts
  statusReads,       \* connectToWiFi: calls of WiFi.status() so far
  wifiBegins,        \* calls of WiFi.begin() so far
  lastButtonState, buttonState, lastDebounceTime,
  lastTiltX, lastTiltY, lastTiltTime,
  display,           \* the frame on the OLED
  posts,             \* calls of http.POST so far
  events,            \* calls of onButtonPress and onTiltDetected so far
  last,              \* the last handler call: its kind, WiFi status, response,
                     \* return value and the frames it drew, in order
  \* history of the button filter
  debStampTrue,      \* the clock when lastDebounceTime was last assigned
  btnGate,           \* the debounce gate (line 143) at the last poll
  btnEmit,           \* the last poll called onButtonPress
  held,              \* at the last poll: "none" (reading HIGH), or whether the
                     \* reading had been LOW for debounceDelay ("long"/"short")
  runEvents,         \* pressed events since the reading last changed to LOW
  runStartBs,        \* buttonState when the reading last changed to LOW
  eventsSinceHigh,   \* pressed events since buttonState was last HIGH after a poll
  \* history of the tilt detector
  tiltStampTrue,     \* the clock when lastTiltTime was last assigned
  tiltGate,          \* the cool-down gate (line 176) at the last sample
  tiltEmit,          \* the last sample called onTiltDetected
  sampleX, sampleY,  \* the last sample read
  evTiltX, evTiltY,  \* the sample of the last emitted tilt event
  everConnected      \* WiFi.status() has been WL_CONNECTED at some time

setupVars == <<attempts, statusReads, wifiBegins>>
buttonVars == <<lastButtonState, buttonState, lastDebounceTime>>
tiltVars == <<lastTiltX, lastTiltY, lastTiltTime>>
outVars == <<display, posts, events, last>>
buttonHist == <<debStampTrue, btnGate, btnEmit, held, runEvents, runStartBs,
                eventsSinceHigh>>
tiltHist == <<tiltStampTrue, tiltGate, tiltEmit, sampleX, sampleY, evTiltX,
              evTiltY>>
vars == <<pc, now, wifi, budget, setupVars, buttonVars, tiltVars, outVars,
          buttonHist, tiltHist, everConnected>>

Zero48 == <<0, 0, 0>>
NoResponse == [code |-> 0, body |-> NoBody]

\* the globals as initialised at lines 28-36, before setup() runs
Globals ==
  /\ lastButtonState = HIGH
  /\ buttonState = HIGH
  /\ lastDebounceTime = <<0, 0>>
  /\ lastTiltX = 0
  /\ lastTiltY = 0
  /\ lastTiltTime = <<0, 0>>
  /\ posts = 0
  /\ events = 0
  /\ last = [kind |-> "none", wifi |-> FALSE, resp |-> NoResponse,
             ret |-> "", frames |-> <<>>]
  /\ debStampTrue = Zero48
  /\ btnGate = FALSE
  /\ btnEmit = FALSE
  /\ held = "none"
  /\ runEvents = 0
  /\ runStartBs = HIGH
  /\ eventsSinceHigh = 0
  /\ tiltStampTrue = Zero48
  /\ tiltGate = FALSE
  /\ tiltEmit = FALSE
  /\ sampleX = 0
  /\ sampleY = 0
  /\ evTiltX = 0
  /\ evTiltY = 0

\* power-on: setup() is about to run
Init ==
  /\ Globals
  /\ pc = "oled"
  /\ now = Zero48
  /\ wifi = FALSE
  /\ everConnected = FALSE
  /\ budget = BootPolls
  /\ attempts = 0
  /\ statusReads = 0
  /\ wifiBegins = 0
  /\ display = Screen("blank")

\* ------------------------------------------------------------ setup()
\* initializeOLED: display.begin fails -> for(;;)
initializeOLED ==
  /\ pc = "oled"
  /\ \E ok \in BOOLEAN : pc' = IF ok THEN "sensors" ELSE "hang"
  /\ UNCHANGED <<now, wifi, budget, setupVars, buttonVars, tiltVars, outVars,
                 buttonHist, tiltHist, everConnected>>

\* initializeMPU6050 and initializePins
initializeSensors ==
  /\ pc = "sensors"
  /\ pc' = "wifiBegin"
  /\ UNCHANGED <<now, wifi, budget, setupVars, buttonVars, tiltVars, outVars,
                 buttonHist, tiltHist, everConnected>>

\* connectToWiFi, lines 91-99
connectBegin ==
  /\ pc = "wifiBegin"
  /\ display' = Screen("Connecting to WiFi...")
  /\ wifiBegins' = wifiBegins + 1
  /\ attempts' = 0
  /\ pc' = "wifiWait"
  /\ UNCHANGED <<now, wifi, budget, statusReads, buttonVars, tiltVars, posts,
                 events, last, buttonHist, tiltHist, everConnected>>

\* a mutant of KeepWaiting: the attempt bound is off by one
KeepWaitingOffByOne(connected, n) == ~connected /\ n <= MaxAttempts

\* the loop condition of line 100
KeepWaiting(connected, n) == ~connected /\ n < MaxAttempts

\* one evaluation of the loop condition, and the body when it holds
connectWait ==
  /\ pc = "wifiWait"
  /\ statusReads' = statusReads + 1
  /\ IF KeepWaiting(wifi, attempts)
       THEN /\ now' = AddMs(now, ConnectPollDelay)
            /\ attempts' = attempts + 1
            /\ pc' = "wifiWait"
       ELSE /\ pc' = "wifiResult"
            /\ UNCHANGED <<now, attempts>>
  /\ UNCHANGED <<wifi, budget, wifiBegins, buttonVars, tiltVars, outVars,
                 buttonHist, tiltHist, everConnected>>

\* connectToWiFi, lines 106-123
connectResult ==
  /\ pc = "wifiResult"
  /\ statusReads' = statusReads + 1
  /\ IF wifi
       THEN /\ display' = Screen("WiFi Connected!")
            /\ now' = AddMs(now, ConnectedDelay)
       ELSE /\ display' = Screen("WiFi Failed!")
            /\ now' = now
  /\ pc' = "welcome"
  /\ UNCHANGED <<wifi, budget, attempts, wifiBegins, buttonVars, tiltVars,
                 posts, events, last, buttonHist, tiltHist, everConnected>>

displayWelcome ==
  /\ pc = "welcome"
  /\ display' = Screen("welcome")
  /\ pc' = "button"
  /\ UNCHANGED <<now, wifi, budget, setupVars, buttonVars, tiltVars, posts,
                 events, last, buttonHist, tiltHist, everConnected>>

\* the access point comes or goes; the program has no part in it
WiFiEnv ==
  /\ wifiBegins > 0
  /\ wifi' = ~wifi
  /\ everConnected' = (everConnected \/ ~wifi)
  /\ UNCHANGED <<pc, now, budget, setupVars, buttonVars, tiltVars, outVars,
                 buttonHist, tiltHist>>

\* ------------------------------------------------------------ handlers
\* onButtonPress: the request, then the status frame drawn over its result
onButtonPress(connected, resp) ==
  LET api == sendAPIRequest(connected, resp)
  IN  [kind |-> "button", wifi |-> connected, resp |-> resp, ret |-> api.ret,
       frames |-> Append(api.frames, Screen("Button Pressed")),
       posts |-> api.posts]

\* onTiltDetected: the request, then the status frame drawn over its result
onTiltDetected(connected, resp) ==
  LET api == sendAPIRequest(connected, resp)
  IN  [kind |-> "tilt", wifi |-> connected, resp |-> resp, ret |-> api.ret,
       frames |-> Append(api.frames, Screen("Tilt Gesture")),
       posts |-> api.posts]

\* the effect of a handler call h that blocks in HTTP for d ms on the
\* display, the counters and the clock
Handled(h, d) ==
  /\ last' = [kind |-> h.kind, wifi |-> h.wifi, resp |-> h.resp,
              ret |-> h.ret, frames |-> h.frames]
  /\ display' = h.frames[Len(h.frames)]
  /\ posts' = posts + h.posts
  /\ events' = events + 1
  /\ now' = AddMs(now, d + HandlerDelay)

\* the responses and blocking times a request can meet: none when offline
Outcomes(connected) ==
  IF connected THEN Responses \X HttpDurations ELSE {<<NoResponse, 0>>}

\* ------------------------------------------------------------ readButton
\* a mutant of DebounceElapsed: no debounce wait
DebounceElapsedNone(m, stamp) == TRUE

\* line 143: (millis() - lastDebounceTime) > debounceDelay
DebounceElapsed(m, stamp) == Gt32(Sub32(m, stamp), debounceDelay)

\* a mutant of PressEdge: every stable LOW poll is an event
PressEdgeLevel(reading, bs) == reading = LOW

\* lines 144-149: the debounced state changes, and to LOW
PressEdge(reading, bs) == reading # bs /\ reading = LOW

\* lines 143-145: buttonState after the poll
DebouncedState(gate, reading, bs) ==
  IF gate /\ reading # bs THEN reading ELSE bs

readButton ==
  /\ pc = "button"
  /\ budget > 0
  /\ budget' = budget - 1
  /\ pc' = "tilt"
  /\ \E reading \in {HIGH, LOW} :
       LET m == Millis(now)
           changed == reading # lastButtonState
           stamp == IF changed THEN m ELSE lastDebounceTime
           stampTrue == IF changed THEN now ELSE debStampTrue
           gate == DebounceElapsed(m, stamp)
           emit == gate /\ PressEdge(reading, buttonState)
           bs == DebouncedState(gate, reading, buttonState)
           run == IF reading = HIGH \/ changed THEN 0 ELSE runEvents
       IN  /\ lastDebounceTime' = stamp
           /\ buttonState' = bs
           /\ lastButtonState' = reading
           /\ debStampTrue' = stampTrue
           /\ btnGate' = gate
           /\ btnEmit' = emit
           /\ held' = IF reading = HIGH THEN "none"
                      ELSE IF Ge48(Sub48(now, stampTrue), debounceDelay)
                        THEN "long" ELSE "short"
           /\ runEvents' = IF emit THEN run + 1 ELSE run
           /\ runStartBs' = IF reading = HIGH THEN HIGH
                            ELSE IF changed THEN buttonState ELSE runStartBs
           /\ eventsSinceHigh' = IF emit THEN eventsSinceHigh + 1
                                 ELSE IF bs = HIGH THEN 0 ELSE eventsSinceHigh
           /\ IF emit
                THEN \E o \in Outcomes(wifi) :
                       Handled(onButtonPress(wifi, o[1]), o[2])
                ELSE UNCHANGED <<now, outVars>>
  /\ UNCHANGED <<wifi, setupVars, tiltVars, tiltHist, everConnected>>

\* ------------------------------------------------------------ readTiltSensor
\* lines 174-175 on raw readings: tilt = raw / 16384.0 is exact in a float,
\* so |tilt - lastTilt| > 1.5 is |raw - lastRaw| > 1.5 * 16384
TiltChanged(x, y, lx, ly) ==
  Abs(x - lx) > tiltThresholdRaw \/ Abs(y - ly) > tiltThresholdRaw

\* line 176: millis() - lastTiltTime > 1000
TiltCooldownOver(m, stamp) == Gt32(Sub32(m, stamp), TiltCooldown)

\* a mutant of NextBaseline: the baseline moves only with an event
NextBaselineOnEmit(emit, sample, old) == IF emit THEN sample ELSE old

\* lines 181-182: the baseline after the sample
NextBaseline(emit, sample, old) == sample

\* a mutant of NextTiltTime: the timestamp is taken at every sample
NextTiltTimeAlways(emit, m, old) == m

\* line 178: lastTiltTime after the sample (m is millis() after the handler)
NextTiltTime(emit, m, old) == IF emit THEN m ELSE old

readTiltSensor ==
  /\ pc = "tilt"
  /\ pc' = "delay"
  /\ \E s \in TiltSamples :
       LET m == Millis(now)
           gate == TiltCooldownOver(m, lastTiltTime)
           emit == TiltChanged(s[1], s[2], lastTiltX, lastTiltY) /\ gate
       IN  /\ IF emit
                THEN \E o \in Outcomes(wifi) :
                       Handled(onTiltDetected(wifi, o[1]), o[2])
                ELSE UNCHANGED <<now, outVars>>
           /\ lastTiltTime' = NextTiltTime(emit, Millis(now'), lastTiltTime)
           /\ tiltStampTrue' = IF emit THEN now' ELSE tiltStampTrue
           /\ lastTiltX' = NextBaseline(emit, s[1], lastTiltX)
           /\ lastTiltY' = NextBaseline(emit, s[2], lastTiltY)
           /\ tiltGate' = gate
           /\ tiltEmit' = emit
           /\ sampleX' = s[1]
           /\ sampleY' = s[2]
           /\ evTiltX' = IF emit THEN s[1] ELSE evTiltX
           /\ evTiltY' = IF emit THEN s[2] ELSE evTiltY
  /\ UNCHANGED <<wifi, budget, setupVars, buttonVars, buttonHist, everConnected>>

\* line 61: delay(100), and the rest of the pass
loopDelay ==
  /\ pc = "delay"
  /\ pc' = "button"
  /\ \E d \in LoopDelays : now' = AddMs(now, d)
  /\ UNCHANGED <<wifi, budget, setupVars, buttonVars, tiltVars, outVars,
                 buttonHist, tiltHist, everConnected>>

\* ------------------------------------------------------------ specifications
Setup ==
  \/ initializeOLED
  \/ initializeSensors
  \/ connectBegin
  \/ connectWait
  \/ connectResult
  \/ displayWelcome

Loop ==
  \/ readButton
  \/ readTiltSensor
  \/ loopDelay

Next == Setup \/ Loop \/ WiFiEnv

\* the run from power-on; the program's own steps are always taken
BootSpec == Init /\ [][Next]_vars /\ WF_vars(Setup \/ Loop)

\* the clock at the top of loop() 1300 ms before millis() wraps
NearWrap == <<0, 65535, 64236>>

\* states at the top of loop(): setup() has just ended with WiFi connected
\* at the first check (2000 ms) or never connected (20 * 500 ms), or loop()
\* has run with no input for 49.7 days less 1300 ms
LoopInit ==
  /\ Globals
  /\ pc = "button"
  /\ budget = MaxPolls
  /\ wifiBegins = 1
  /\ display = Screen("welcome")
  /\ \E e \in {<<<<0, 0, 2000>>, TRUE, 0, 2>>, <<<<0, 0, 10000>>, FALSE, 20, 22>>,
               <<NearWrap, FALSE, 20, 22>>} :
       /\ now = e[1]
       /\ wifi = e[2]
       /\ everConnected = e[2]
       /\ attempts = e[3]
       /\ statusReads = e[4]

LoopNext == Loop \/ WiFiEnv

Spec == LoopInit /\ [][LoopNext]_vars

\* ------------------------------------------------------------ properties
Low32(e) == <<e[2], e[3]>>
InLoop == pc \in {"button", "tilt", "delay"}
ButtonPoll == pc = "button" /\ pc' = "tilt"
TiltSample == pc = "tilt" /\ pc' = "delay"
Min(a, b) == IF a <= b THEN a ELSE b

\* C1 as stated: whenever the reading has been LOW since a change for at least
\* debounceDelay, exactly one pressed event was emitted for that press, and a
\* LOW held for less has emitted none.
C1_AsStated ==
  /\ held = "long" => runEvents = 1
  /\ held = "short" => runEvents = 0

\* C1: a reading that changed to LOW and has stayed LOW for at least
\* debounceDelay has emitted exactly one pressed event if the debounced
\* buttonState was HIGH at the change and none if it was still LOW; a LOW
\* held for less has emitted none.
C1_Debounce ==
  /\ held = "long" => runEvents = (IF runStartBs = HIGH THEN 1 ELSE 0)
  /\ held = "short" => runEvents = 0

\* a press held past the threshold, from a released button, with its one event
C1_Witness == held = "long" /\ runStartBs = HIGH /\ runEvents = 1 /\ btnEmit

\* C2: while the reading stays LOW at most one pressed event is emitted, and
\* no second pressed event is emitted before buttonState has been HIGH.
C2_Idempotent == runEvents <= 1 /\ eventsSinceHigh <= 1

\* a poll that read LOW after the event of the same press and emitted nothing
C2_Witness == held = "long" /\ runEvents = 1 /\ ~btnEmit /\ btnGate

\* C3 as stated: once a tilt event has been emitted, a sample emits a tilt
\* event exactly when X or Y differs by more than the threshold from its value
\* at the last emitted event and at least 1000 ms have passed since that event.
C3_AsStated ==
  [][(TiltSample /\ tiltStampTrue # Zero48) =>
       (events' # events <=>
          /\ \/ Abs(sampleX' - evTiltX) > tiltThresholdRaw
             \/ Abs(sampleY' - evTiltY) > tiltThresholdRaw
          /\ Ge48(Sub48(now, tiltStampTrue), TiltCooldown))]_vars

\* C3: a sample emits a tilt event exactly when X or Y differs by more than
\* the threshold from its value at the previous sample (0 before the first)
\* and the time since lastTiltTime was taken (at boot, or when the last tilt
\* handler returned), modulo 2^32 ms, is more than 1000 ms.
C3_TiltDetector ==
  [][TiltSample =>
       (events' # events <=>
          /\ \/ Abs(sampleX' - sampleX) > tiltThresholdRaw
             \/ Abs(sampleY' - sampleY) > tiltThresholdRaw
          /\ Gt32(Low32(Sub48(now, tiltStampTrue)), TiltCooldown))]_vars

\* after a tilt event and its cool-down, a sample far from the event's value
\* but equal to the sample before it: nothing is emitted
C3_Witness ==
  /\ pc = "delay"
  /\ tiltStampTrue # Zero48
  /\ tiltGate
  /\ ~tiltEmit
  /\ Abs(sampleX - evTiltX) > tiltThresholdRaw

\* C4: a sample that emits no event sends no request, draws nothing, leaves
\* lastTiltTime and everything else alone, and sets the baseline to the sample.
C4_NoEmitFrame ==
  [][(TiltSample /\ events' = events) =>
       /\ posts' = posts
       /\ display' = display
       /\ last' = last
       /\ lastTiltTime' = lastTiltTime
       /\ UNCHANGED <<buttonVars, setupVars, wifi>>
       /\ lastTiltX' = sampleX'
       /\ lastTiltY' = sampleY']_vars

\* a sample that moved the baseline without an event
C4_Witness == pc = "delay" /\ ~tiltEmit /\ events = 0 /\ lastTiltX # 0

\* the failures of a request: offline, POST error, body without the list
Failed(l) ==
  \/ ~l.wifi
  \/ l.resp.code <= 0
  \/ l.resp.body.kind \in {"invalid", "nofield"}

\* C5 as stated: after a handler whose request failed, the program is back in
\* the polling loop and the frame drawn for the failure is the demo list.
C5_AsStated ==
  (last.kind # "none" /\ Failed(last)) =>
     (InLoop /\ last.frames[1] = displayDemoRecommendations)

\* C6: a step sends at most one POST; it sends one only if it emits an event
\* while WiFi is connected, and every event emitted while WiFi is connected
\* sends exactly one, every other event none.
C6_NoRetry ==
  [][/\ posts' - posts \in {0, 1}
     /\ events' - events \in {0, 1}
     /\ posts' # posts => events' = events + 1
     /\ events' # events => posts' - posts = (IF wifi THEN 1 ELSE 0)]_vars

\* a pass of loop() that emitted nothing, after a request that failed
C6_Witness ==
  /\ pc = "delay"
  /\ last.ret = "Error"
  /\ ~btnEmit
  /\ ~tiltEmit
  /\ posts = 1

\* C7 as stated: after an event whose request returned a "recommendations"
\* array, the display shows the recommendation list until the next event.
C7_AsStated ==
  (last.kind # "none" /\ last.ret = "response"
     /\ last.resp.body.kind = "recs") => display.screen = "recs"

\* C8: for a response that was received, the frame displayRecommendations
\* draws is the list of the first min(n, 3) array entries in order when the
\* body has a "recommendations" array of n entries, and the demo list
\* otherwise.
C8_Render ==
  (last.kind # "none" /\ last.ret = "response") =>
     LET b == last.resp.body
         f == last.frames[1]
     IN  IF b.kind = "recs"
           THEN /\ f.screen = "recs"
                /\ Len(f.entries) <= 3
                /\ f.entries = SubSeq(b.movies, 1, Min(Len(b.movies), 3))
           ELSE f = displayDemoRecommendations

\* a response with more entries than rows
C8_Witness ==
  /\ last.ret = "response"
  /\ last.resp.body.kind = "recs"
  /\ Len(last.resp.body.movies) > MaxDisplay
  /\ last.frames[1].entries = <<1, 2, 3>>

\* C9: whenever less than 2^32 ms have truly passed since a timestamp was
\* taken, the gate the code computes from millis() equals the gate on the
\* true elapsed time, for the button and for the tilt detector.
C9_WrapSafe ==
  [][/\ (ButtonPoll /\ Sub48(now, debStampTrue')[1] = 0) =>
          btnGate' = Gt48(Sub48(now, debStampTrue'), debounceDelay)
     /\ (TiltSample /\ Sub48(now, tiltStampTrue)[1] = 0) =>
          tiltGate' = Gt48(Sub48(now, tiltStampTrue), TiltCooldown)]_vars

\* millis() has wrapped since both timestamps were taken, and both gates
\* were open in this pass
C9_Witness ==
  /\ pc = "delay"
  /\ now[1] = 1
  /\ debStampTrue[1] = 0 /\ debStampTrue # Zero48
  /\ tiltStampTrue[1] = 0 /\ tiltStampTrue # Zero48
  /\ btnEmit
  /\ tiltGate

\* C10 as stated: WiFi.status() is read at most 20 times by connectToWiFi,
\* WiFi.begin is called once, and no request is sent while WiFi has never
\* been connected.
C10_AsStated ==
  /\ statusReads <= MaxAttempts
  /\ wifiBegins <= 1
  /\ ~everConnected => posts = 0

\* C10: connectToWiFi waits at most 20 times, reading WiFi.status() at most
\* 22 times, and setup() then reaches the polling loop; WiFi.begin is called
\* once, and while WiFi has never been connected every event takes the
\* offline path and no request is sent.
C10_Bringup ==
  /\ [](/\ attempts <= MaxAttempts
        /\ statusReads <= MaxAttempts + 2
        /\ wifiBegins <= 1
        /\ ~everConnected =>
             (posts = 0 /\ (last.kind # "none" => last.ret = "Offline")))
  /\ (pc = "wifiBegin") ~> (pc = "button")

\* WiFi never connected: 20 waits, then an event on the offline path
C10_Witness ==
  /\ pc = "button"
  /\ attempts = MaxAttempts
  /\ statusReads = MaxAttempts + 2
  /\ ~everConnected
  /\ last.ret = "Offline"

=============================================================================
